---- MODULE Spec2Model ----
(***************************************************************************)
(* Model of src/src/apple.rs: Connection::window_titles and the parser     *)
(* split().  Text is a sequence of one-character strings; a byte that is   *)
(* not valid UTF-8 is the token InvalidByte.  The standard-error text is   *)
(* tokenised by words, the standard-output text by characters.             *)
(***************************************************************************)
EXTENDS Integers, Sequences, FiniteSets, TLC

\* ---------------------------------------------------------------- bounds
MaxLen == 5

\* ------------------------------------------------------------- alphabet
Q == "\""
BS == "\\"
InvalidByte == "0xFF"
ReplacementChar == "U+FFFD"
Structural == {",", "{", "}", " "}
StdoutAlphabet == {Q, BS, ",", "a"}

PERMISSION_ERROR == <<"osascript", "is", "not", "allowed", "assistive", "access">>

Last(s) == s[Len(s)]

StringsUpTo(n) == UNION {[1..k -> StdoutAlphabet] : k \in 0..n}

StderrSamples ==
  { <<>>,
    <<"osascript", "is", "not", "allowed">>,
    PERMISSION_ERROR,
    <<"execution", "error:">> \o PERMISSION_ERROR \o <<".", "(-1719)">>,
    <<InvalidByte>> \o PERMISSION_ERROR }

ExitCodes == {0, 1}

\* ------------------------------------------------------- pure functions
\* String::from_utf8_lossy: every invalid byte becomes U+FFFD
from_utf8_lossy(bytes) ==
  [i \in 1..Len(bytes) |-> IF bytes[i] = InvalidByte THEN ReplacementChar ELSE bytes[i]]

\* str::contains on a pattern: some window of the haystack equals the needle
contains_prefix_only(hay, needle) ==
  Len(hay) >= Len(needle) /\ SubSeq(hay, 1, Len(needle)) = needle

contains(hay, needle) ==
  \E i \in 0..(Len(hay) - Len(needle)) : SubSeq(hay, i + 1, i + Len(needle)) = needle

\* str::replace: all non-overlapping matches, left to right
RECURSIVE replace(_, _, _)
replace_none(s, from, to) == s

replace(s, from, to) ==
  IF Len(s) < Len(from) THEN s
  ELSE IF SubSeq(s, 1, Len(from)) = from
       THEN to \o replace(SubSeq(s, Len(from) + 1, Len(s)), from, to)
       ELSE <<s[1]>> \o replace(Tail(s), from, to)

\* line 55: c == '"' && title_chars.last() != Some(&'\\')
IsUnescapedQuote_two_back(c, tc) ==
  IF c # Q THEN FALSE
  ELSE IF tc = <<>> THEN TRUE
  ELSE IF Last(tc) # BS THEN TRUE
  ELSE IF Len(tc) >= 2 THEN tc[Len(tc) - 1] = BS
  ELSE FALSE

IsUnescapedQuote(c, tc) ==
  IF c # Q THEN FALSE
  ELSE IF tc = <<>> THEN TRUE
  ELSE Last(tc) # BS

\* line 63: the decoded title
Decode_strip_backslashes(tc) == replace(tc, <<BS>>, <<>>)

Decode(tc) == replace(tc, <<BS, Q>>, <<Q>>)

\* split() computed as one function: the outer and the inner while-let loops
RECURSIVE InnerLoop(_, _, _)
InnerLoop(s, p, tc) ==
  IF p >= Len(s)
  THEN [pos |-> p, found_end_quote |-> FALSE, title_chars |-> tc]
  ELSE IF IsUnescapedQuote(s[p + 1], tc)
       THEN [pos |-> p + 1, found_end_quote |-> TRUE, title_chars |-> tc]
       ELSE InnerLoop(s, p + 1, Append(tc, s[p + 1]))

RECURSIVE OuterLoop(_, _, _)
OuterLoop(s, p, ts) ==
  IF p >= Len(s) THEN ts
  ELSE IF s[p + 1] = Q
       THEN LET r == InnerLoop(s, p + 1, <<>>)
            IN OuterLoop(s, r.pos,
                         IF r.found_end_quote
                         THEN Append(ts, Decode(r.title_chars))
                         ELSE ts)
       ELSE OuterLoop(s, p + 1, ts)

split(s) == OuterLoop(s, 0, <<>>)

\* ---------------------------------------------------------------- state
VARIABLES pc, command, string, pos, start, title_chars, found_end_quote,
          titles, result, spawned, steps

vars == <<pc, command, string, pos, start, title_chars, found_end_quote,
          titles, result, spawned, steps>>

NoCommand == [tag |-> "None", status |-> 0, stdout |-> <<>>, stderr |-> <<>>]
NoResult == [tag |-> "None", error |-> "", value |-> <<>>]
ErrResult(e) == [tag |-> "Err", error |-> e, value |-> <<>>]
OkResult(v) == [tag |-> "Ok", error |-> "", value |-> v]

splitLocals == <<string, pos, start, title_chars, found_end_quote, titles, steps>>

Init ==
  /\ pc = "idle"
  /\ command = NoCommand
  /\ string = <<>>
  /\ pos = 0
  /\ start = 0
  /\ title_chars = <<>>
  /\ found_end_quote = FALSE
  /\ titles = <<>>
  /\ result = NoResult
  /\ spawned = 0
  /\ steps = 0

\* lines 13-14: Command::new("osascript").args(..).output()
Spawn ==
  /\ pc = "idle"
  /\ \/ command' = [tag |-> "Err", status |-> 0, stdout |-> <<>>, stderr |-> <<>>]
     \/ \E st \in ExitCodes, out \in StringsUpTo(MaxLen), err \in StderrSamples :
          command' = [tag |-> "Ok", status |-> st, stdout |-> out, stderr |-> err]
  /\ spawned' = spawned + 1
  /\ pc' = "spawned"
  /\ UNCHANGED <<splitLocals, result>>

\* lines 16-19: Err(_) => return Err(ExecuteFailed)
ExecuteFailedReturn_ok_empty ==
  /\ pc = "spawned"
  /\ command.tag = "Err"
  /\ result' = OkResult(<<>>)
  /\ pc' = "returned"
  /\ UNCHANGED <<command, splitLocals, spawned>>

ExecuteFailedReturn ==
  /\ pc = "spawned"
  /\ command.tag = "Err"
  /\ result' = ErrResult("ExecuteFailed")
  /\ pc' = "returned"
  /\ UNCHANGED <<command, splitLocals, spawned>>

\* lines 21-23: stderr contains PERMISSION_ERROR
NoPermissionReturn ==
  /\ pc = "spawned"
  /\ command.tag = "Ok"
  /\ contains(from_utf8_lossy(command.stderr), PERMISSION_ERROR)
  /\ result' = ErrResult("NoAccessibilityPermission")
  /\ pc' = "returned"
  /\ UNCHANGED <<command, splitLocals, spawned>>

\* lines 24, 44-46: split(&from_utf8_lossy(stdout)) is entered
SplitEnter ==
  /\ pc = "spawned"
  /\ command.tag = "Ok"
  /\ ~contains(from_utf8_lossy(command.stderr), PERMISSION_ERROR)
  /\ string' = from_utf8_lossy(command.stdout)
  /\ titles' = <<>>
  /\ pos' = 0
  /\ pc' = "outer"
  /\ UNCHANGED <<command, start, title_chars, found_end_quote, result, spawned, steps>>

\* lines 47-52: the peeked character is a quote; it is skipped
OuterQuote_no_skip ==
  /\ pc = "outer"
  /\ pos < Len(string)
  /\ string[pos + 1] = Q
  /\ start' = pos
  /\ title_chars' = <<>>
  /\ found_end_quote' = FALSE
  /\ pos' = pos
  /\ steps' = steps + 1
  /\ pc' = "inner"
  /\ UNCHANGED <<command, string, titles, result, spawned>>

OuterQuote ==
  /\ pc = "outer"
  /\ pos < Len(string)
  /\ string[pos + 1] = Q
  /\ start' = pos
  /\ title_chars' = <<>>
  /\ found_end_quote' = FALSE
  /\ pos' = pos + 1
  /\ steps' = steps + 1
  /\ pc' = "inner"
  /\ UNCHANGED <<command, string, titles, result, spawned>>

\* lines 47-48, 66-69: the peeked character is not a quote
OuterSkip ==
  /\ pc = "outer"
  /\ pos < Len(string)
  /\ string[pos + 1] # Q
  /\ start' = pos
  /\ pos' = pos + 1
  /\ steps' = steps + 1
  /\ UNCHANGED <<pc, command, string, title_chars, found_end_quote, titles,
                 result, spawned>>

\* lines 53-59: a character that is not an unescaped quote is accumulated
InnerPush ==
  /\ pc = "inner"
  /\ pos < Len(string)
  /\ ~IsUnescapedQuote(string[pos + 1], title_chars)
  /\ title_chars' = Append(title_chars, string[pos + 1])
  /\ pos' = pos + 1
  /\ steps' = steps + 1
  /\ UNCHANGED <<pc, command, string, start, found_end_quote, titles, result,
                 spawned>>

\* lines 53-57, 61-65: an unescaped quote ends the title, which is pushed
InnerClose_prepend ==
  /\ pc = "inner"
  /\ pos < Len(string)
  /\ IsUnescapedQuote(string[pos + 1], title_chars)
  /\ found_end_quote' = TRUE
  /\ titles' = <<Decode(title_chars)>> \o titles
  /\ pos' = pos + 1
  /\ steps' = steps + 1
  /\ pc' = "outer"
  /\ UNCHANGED <<command, string, start, title_chars, result, spawned>>

InnerClose_skip_empty ==
  /\ pc = "inner"
  /\ pos < Len(string)
  /\ IsUnescapedQuote(string[pos + 1], title_chars)
  /\ found_end_quote' = TRUE
  /\ titles' = IF title_chars = <<>> THEN titles
               ELSE Append(titles, Decode(title_chars))
  /\ pos' = pos + 1
  /\ steps' = steps + 1
  /\ pc' = "outer"
  /\ UNCHANGED <<command, string, start, title_chars, result, spawned>>

InnerClose ==
  /\ pc = "inner"
  /\ pos < Len(string)
  /\ IsUnescapedQuote(string[pos + 1], title_chars)
  /\ found_end_quote' = TRUE
  /\ titles' = Append(titles, Decode(title_chars))
  /\ pos' = pos + 1
  /\ steps' = steps + 1
  /\ pc' = "outer"
  /\ UNCHANGED <<command, string, start, title_chars, result, spawned>>

\* lines 53, 61: the input ends inside the title; nothing is pushed
InnerExhausted_push_partial ==
  /\ pc = "inner"
  /\ pos >= Len(string)
  /\ titles' = Append(titles, Decode(title_chars))
  /\ pc' = "outer"
  /\ UNCHANGED <<command, string, pos, start, title_chars, found_end_quote,
                 result, spawned, steps>>

InnerExhausted_abort ==
  /\ pc = "inner"
  /\ pos >= Len(string)
  /\ titles' = <<>>
  /\ pc' = "outer"
  /\ UNCHANGED <<command, string, pos, start, title_chars, found_end_quote,
                 result, spawned, steps>>

InnerExhausted ==
  /\ pc = "inner"
  /\ pos >= Len(string)
  /\ pc' = "outer"
  /\ UNCHANGED <<command, string, pos, start, title_chars, found_end_quote,
                 titles, result, spawned, steps>>

\* lines 47, 71, 24: the outer loop ends; Ok(titles) is returned
SplitReturn ==
  /\ pc = "outer"
  /\ pos >= Len(string)
  /\ result' = OkResult(titles)
  /\ pc' = "returned"
  /\ UNCHANGED <<command, splitLocals, spawned>>

\* lines 9-12: Connection has no field; the next call starts from nothing
NextCall ==
  /\ pc = "returned"
  /\ pc' = "idle"
  /\ command' = NoCommand
  /\ string' = <<>>
  /\ pos' = 0
  /\ start' = 0
  /\ title_chars' = <<>>
  /\ found_end_quote' = FALSE
  /\ titles' = <<>>
  /\ result' = NoResult
  /\ spawned' = 0
  /\ steps' = 0

SplitStep ==
  \/ OuterQuote
  \/ OuterSkip
  \/ InnerPush
  \/ InnerClose
  \/ InnerExhausted
  \/ SplitReturn

Next ==
  \/ Spawn
  \/ ExecuteFailedReturn
  \/ NoPermissionReturn
  \/ SplitEnter
  \/ SplitStep
  \/ NextCall

Spec == Init /\ [][Next]_vars

\* the scan is synchronous code: once entered it keeps running
LiveSpec == Spec /\ WF_vars(SplitStep)

TypeOK ==
  /\ pc \in {"idle", "spawned", "outer", "inner", "returned"}
  /\ pos \in 0..Len(string)
  /\ start \in 0..Len(string)
  /\ found_end_quote \in BOOLEAN
  /\ spawned \in 0..1

\* ------------------------------------------------- vocabulary of the claims
QuotePos(s) == {i \in 1..Len(s) : s[i] = Q}
NumQuotes(s) == Cardinality(QuotePos(s))
NthQuote(s, n) == CHOOSE i \in QuotePos(s) : Cardinality({j \in QuotePos(s) : j <= i}) = n
Between(s, a, b) == SubSeq(s, NthQuote(s, a) + 1, NthQuote(s, b) - 1)
NoEscapedQuote(s) == \A j \in 2..Len(s) : s[j] = Q => s[j - 1] # BS
Returned == pc = "returned"
ReturnedOk == pc = "returned" /\ result.tag = "Ok"

\* the quotes pair up in order of appearance: (1st, 2nd), (3rd, 4th), ...
InSegment(s, j) ==
  \E i \in 1..(NumQuotes(s) \div 2) : NthQuote(s, 2 * i - 1) <= j /\ j <= NthQuote(s, 2 * i)
QuotedContents(s) == [i \in 1..(NumQuotes(s) \div 2) |-> Between(s, 2 * i - 1, 2 * i)]
WellFormedReply(s) ==
  /\ NumQuotes(s) % 2 = 0
  /\ NoEscapedQuote(s)
  /\ \A j \in 1..Len(s) : ~InSegment(s, j) => s[j] \in Structural

\* C1: for a reply made of N properly terminated quoted segments and
\* structural characters outside them, split() returns exactly N titles, the
\* i-th being the content of the i-th segment (duplicates kept).
C1_TitlesInOrder ==
  (Returned /\ command.tag = "Ok" /\ result.tag # "Err" /\ WellFormedReply(string))
    => result = OkResult(QuotedContents(string))

C1_Witness ==
  /\ ReturnedOk
  /\ WellFormedReply(string)
  /\ Len(result.value) = 2
  /\ result.value[1] = result.value[2]
  /\ \E j \in 1..Len(string) : ~InSegment(string, j)

\* the raw text with every backslash that stands right before a quote removed
DropEscapes(raw) ==
  LET keep == {i \in 1..Len(raw) : ~(raw[i] = BS /\ i < Len(raw) /\ raw[i + 1] = Q)}
      nth(k) == CHOOSE i \in keep : Cardinality({j \in keep : j <= i}) = k
  IN [k \in 1..Cardinality(keep) |-> raw[nth(k)]]

\* C2: inside a segment a quote right after a backslash does not end the
\* segment; the segment ends at the next quote not preceded by a backslash,
\* and the title is the raw content with each backslash-quote read as a quote.
C2_EscapedQuote ==
  [][(pc = "inner" /\ pos < Len(string) /\ string[pos + 1] = Q)
       => IF string[pos] = BS
          THEN pc' = "inner" /\ titles' = titles /\ pos' = pos + 1
          ELSE /\ pc' = "outer"
               /\ titles' = Append(titles, DropEscapes(SubSeq(string, start + 2, pos)))]_vars

C2_Witness ==
  /\ ReturnedOk
  /\ \E i \in 1..Len(result.value) :
       \E j \in 1..Len(result.value[i]) :
         result.value[i][j] = Q /\ Len(result.value[i]) >= 2

\* the last outer iteration opened a title that never closed
Unterminated == start < Len(string) /\ string[start + 1] = Q /\ ~found_end_quote

\* C3: when the input ends inside a quoted segment, the call still returns
\* Ok, and the titles are exactly those of the text before that segment.
C3_UnterminatedTail ==
  (Returned /\ Unterminated) => result = OkResult(split(SubSeq(string, 1, start)))

C3_Witness ==
  /\ ReturnedOk
  /\ Unterminated
  /\ title_chars # <<>>
  /\ Len(result.value) >= 1

\* a reply in which one entry lost its closing quote: an odd number of quotes
BrokenReply(s) == NumQuotes(s) % 2 = 1 /\ NoEscapedQuote(s)
Entries(s) == (NumQuotes(s) + 1) \div 2
\* the entries other than the k-th, the k-th being the one without its quote
ContentsSkipping(s, k) ==
  [m \in 1..(Entries(s) - 1) |->
     IF m < k THEN Between(s, 2 * m - 1, 2 * m) ELSE Between(s, 2 * m, 2 * m + 1)]
InEntrySkipping(s, k, j) ==
  \/ \E m \in 1..(Entries(s) - 1) :
       IF m < k
       THEN NthQuote(s, 2 * m - 1) <= j /\ j <= NthQuote(s, 2 * m)
       ELSE NthQuote(s, 2 * m) <= j /\ j <= NthQuote(s, 2 * m + 1)
  \/ /\ NthQuote(s, 2 * k - 1) <= j
     /\ (k < Entries(s) => j < NthQuote(s, 2 * k))
BrokenAt(s, k) ==
  /\ BrokenReply(s)
  /\ k \in 1..Entries(s)
  /\ \A j \in 1..Len(s) : ~InEntrySkipping(s, k, j) => s[j] \in Structural

\* C4 as stated: whichever entry lost its closing quote, every other entry of
\* the reply, before and after it, is returned.
C4_BeforeAndAfter ==
  (Returned /\ command.tag = "Ok" /\ result.tag # "Err")
    => \A k \in 1..Len(string) :
         BrokenAt(string, k) => result = OkResult(ContentsSkipping(string, k))

\* C4 as amended: the entry without closing quote is the last one of the reply
C4_BeforeOnly ==
  (Returned /\ command.tag = "Ok" /\ result.tag # "Err")
    => \A k \in 1..Len(string) :
         (BrokenAt(string, k) /\ k = Entries(string))
           => result = OkResult(ContentsSkipping(string, k))

C4_Witness ==
  /\ ReturnedOk
  /\ BrokenAt(string, Entries(string))
  /\ Entries(string) >= 2
  /\ pos > start + 1
  /\ result.value # <<>>

\* each title with its quotes escaped, wrapped in quotes, all concatenated
RECURSIVE EscapeQuotes(_)
EscapeQuotes(t) ==
  IF t = <<>> THEN <<>>
  ELSE (IF t[1] = Q THEN <<BS, Q>> ELSE <<t[1]>>) \o EscapeQuotes(Tail(t))
RECURSIVE Rewrap(_)
Rewrap(ts) ==
  IF ts = <<>> THEN <<>>
  ELSE <<Q>> \o EscapeQuotes(ts[1]) \o <<Q>> \o Rewrap(Tail(ts))

\* C5: re-parsing the re-quoted, re-escaped titles gives the same titles
C5_RoundTrip ==
  ReturnedOk => split(Rewrap(result.value)) = result.value

C5_Witness ==
  /\ ReturnedOk
  /\ \E i \in 1..Len(result.value) :
       \E j \in 1..Len(result.value[i]) : result.value[i][j] = Q
  /\ Rewrap(result.value) = string

\* the signature occurs somewhere in the captured standard error
HasSignature(err) ==
  \E i \in 0..Len(err) : \E j \in i..Len(err) :
    SubSeq(err, 1, i) \o PERMISSION_ERROR \o SubSeq(err, j + 1, Len(err)) = err

\* C6: a launched tool whose standard error holds the signature gives
\* NoAccessibilityPermission, whatever the exit code and the standard output;
\* the parser is not run.
C6_PermissionDenied ==
  (Returned /\ command.tag = "Ok" /\ HasSignature(command.stderr))
    => /\ result = ErrResult("NoAccessibilityPermission")
       /\ steps = 0
       /\ titles = <<>>

C6_Witness ==
  /\ Returned
  /\ command.tag = "Ok"
  /\ HasSignature(command.stderr)
  /\ command.stderr # PERMISSION_ERROR
  /\ command.status = 0
  /\ NumQuotes(command.stdout) >= 2

\* C7: ExecuteFailed exactly when the tool was not launched; a launched tool
\* without the signature gives Ok of the parser's result on standard output
\* (Ok of the empty list when there is no quote); one process per call.
C7_Classification ==
  /\ spawned <= 1
  /\ Returned =>
       /\ spawned = 1
       /\ result.tag \in {"Ok", "Err"}
       /\ (result = ErrResult("ExecuteFailed")) <=> (command.tag = "Err")
       /\ (command.tag = "Ok" /\ ~HasSignature(command.stderr))
            => /\ result = OkResult(split(from_utf8_lossy(command.stdout)))
               /\ (NumQuotes(command.stdout) = 0 => result = OkResult(<<>>))

C7_Witness ==
  /\ ReturnedOk
  /\ result.value = <<>>
  /\ command.stdout # <<>>
  /\ command.stderr # <<>>
  /\ command.status = 1

EndsWithBackslash(t) == IF t = <<>> THEN FALSE ELSE Last(t) = BS

\* C8: inside a title a quote closes it exactly when the raw buffer is empty
\* or does not end with a backslash (one character of lookbehind), and no
\* returned title ends with a backslash.
C8_OneCharLookbehind ==
  /\ [][(pc = "inner" /\ pos < Len(string) /\ string[pos + 1] = Q)
          => ((pc' = "outer" /\ found_end_quote' /\ Len(titles') = Len(titles) + 1)
                <=> ~EndsWithBackslash(title_chars))]_vars
  /\ [](\A i \in 1..Len(titles) : ~EndsWithBackslash(titles[i]))
  /\ [](\A i \in 1..Len(result.value) : ~EndsWithBackslash(result.value[i]))

C8_Witness ==
  /\ pc = "inner"
  /\ Len(title_chars) = 3
  /\ title_chars = <<BS, BS, Q>>

ScanIteration == pc \in {"outer", "inner"} /\ pos < Len(string)

\* C9: every scan ends with a returned list; each loop iteration consumes one
\* character and none is visited twice, so the iterations are at most the
\* input length and the titles at most half the quotes.
C9_Termination ==
  /\ [][ScanIteration => (pos' = pos + 1 /\ steps' = steps + 1)]_vars
  /\ [][(pc \in {"outer", "inner"}) => (pos <= pos' /\ string = string')]_vars
  /\ [](steps <= pos /\ pos <= Len(string))
  /\ [](2 * Len(titles) <= NumQuotes(SubSeq(string, 1, pos)))
  /\ [](ReturnedOk => 2 * Len(result.value) <= NumQuotes(string))
  /\ (pc \in {"outer", "inner"}) ~> ReturnedOk

C9_Witness ==
  /\ ReturnedOk
  /\ steps = Len(string)
  /\ steps >= 4
  /\ 2 * Len(result.value) = NumQuotes(string)

\* C10: an opening quote directly followed by a quote appends the empty
\* title at once; a reply without any quote gives the empty list.
C10_EmptyPair ==
  [][/\ (pc = "inner" /\ pos = start + 1 /\ pos < Len(string) /\ string[pos + 1] = Q)
          => (pc' = "outer" /\ titles' = Append(titles, <<>>))
     /\ (pc = "outer" /\ pc' = "returned" /\ NumQuotes(string) = 0)
          => result' = OkResult(<<>>)]_vars

C10_Witness ==
  /\ ReturnedOk
  /\ Len(result.value) = 2
  /\ result.value[1] # <<>>
  /\ result.value[2] = <<>>
====
